---- MODULE Spec2Model ----
(***************************************************************************)
(* nixdoc: extraction of documentation from the set entries of a Nix file  *)
(* and their rendering as DocBook sections (src/src/main.rs).              *)
(*                                                                         *)
(* Text is a sequence of one-character strings, so that trimming, prefix   *)
(* tests, slicing and line splitting are computed character by character.  *)
(***************************************************************************)
EXTENDS Integers, Sequences, FiniteSets

VARIABLES
  pc,        \* position in the program
  raw,       \* parse_doc_comment: the comment text given
  lines,     \* parse_doc_comment: lines of raw.trim() still to process
  state,     \* parse_doc_comment: ParseState
  doc,       \* parse_doc_comment: buffer `doc`
  doc_type,  \* parse_doc_comment: buffer `doc_type`
  example,   \* parse_doc_comment: buffer `example`
  comment,   \* parse_doc_comment: the DocComment returned
  input,     \* main: the set entries of the Nix file, as written
  arena,     \* main: nix.arena, the nodes of the parsed file
  idx,       \* main: the arena index the iterator over the nodes is at
  entries,   \* main: the ManualEntry values collected
  written,   \* main: how many entries the rendering loop has written
  out        \* main: the events written to the XML writer

parseVars == <<raw, lines, state, doc, doc_type, example, comment>>
mainVars == <<input, arena, idx, entries, written, out>>
vars == <<pc, parseVars, mainVars>>

\* Option<T>: None, or Some(v).
None == [some |-> FALSE]
Some(v) == [some |-> TRUE, val |-> v]

------------------------------------------------------------------------------
\* str primitives of the Rust standard library, as used by main.rs

NL == "\n"
SP == " "

IsWhitespace(c) == c \in {SP, NL, "\t"}

RECURSIVE TrimStart(_)
TrimStart(s) ==
  IF s # <<>> /\ IsWhitespace(Head(s)) THEN TrimStart(Tail(s)) ELSE s

RECURSIVE TrimEnd(_)
TrimEnd(s) ==
  IF s # <<>> /\ IsWhitespace(s[Len(s)])
  THEN TrimEnd(SubSeq(s, 1, Len(s) - 1))
  ELSE s

\* str::trim
Trim(s) == TrimEnd(TrimStart(s))

\* str::starts_with
StartsWith(s, p) == Len(s) >= Len(p) /\ SubSeq(s, 1, Len(p)) = p

\* &s[n..]
SliceFrom(s, n) == SubSeq(s, n + 1, Len(s))

\* str::trim_start_matches: every leading repetition of the pattern is removed
RECURSIVE TrimStartMatches(_, _)
TrimStartMatches(s, p) ==
  IF p # <<>> /\ StartsWith(s, p)
  THEN TrimStartMatches(SliceFrom(s, Len(p)), p)
  ELSE s

\* str::lines: the text between the line breaks; a final line break starts no
\* new line
Lines(s) ==
  LET nl == {i \in 1..Len(s) : s[i] = NL}
      m == Cardinality(nl)
      \* the position of the k-th line break, 0 and Len(s) + 1 at the ends
      break(k) == IF k = 0 THEN 0
                  ELSE IF k = m + 1 THEN Len(s) + 1
                  ELSE CHOOSE i \in nl : Cardinality({j \in nl : j < i}) = k - 1
      n == IF s = <<>> \/ s[Len(s)] = NL THEN m ELSE m + 1
  IN [k \in 1..n |-> SubSeq(s, break(k - 1) + 1, break(k) - 1)]

------------------------------------------------------------------------------
\* parse_doc_comment

DocMarker == <<"@", "d", "o", "c", " ">>
TypeMarker == <<"T", "y", "p", "e", ":">>
ExampleMarker == <<"E", "x", "a", "m", "p", "l", "e", ":">>
TypeSliceLen == 5

\* if line.starts_with("@doc ") { state = Doc; line = line.trim_start_matches("@doc "); }
CheckDoc(c) ==
  IF StartsWith(c.line, DocMarker)
  THEN [state |-> "Doc", line |-> TrimStartMatches(c.line, DocMarker)]
  ELSE c

\* if line.starts_with("Type:") { state = Type; line = &line[5..]; }
CheckType(c) ==
  IF StartsWith(c.line, TypeMarker)
  THEN [state |-> "Type", line |-> SliceFrom(c.line, TypeSliceLen)]
  ELSE c

\* if line.starts_with("Example:") { state = Example; line = line.trim_start_matches("Example:"); }
CheckExample(c) ==
  IF StartsWith(c.line, ExampleMarker)
  THEN [state |-> "Example", line |-> TrimStartMatches(c.line, ExampleMarker)]
  ELSE c

\* Mutant: the Example check runs before the Type check.
MarkerChecksExampleFirst(st, l) ==
  CheckType(CheckExample(CheckDoc([state |-> st, line |-> Trim(l)])))

\* The three checks of one loop iteration, on the trimmed line.
MarkerChecks(st, l) ==
  CheckExample(CheckType(CheckDoc([state |-> st, line |-> Trim(l)])))

\* match state { ... }: the line is pushed to the buffer of the state it left
\* the checks in.
PushLine(ps, c) ==
  CASE c.state = "Type" ->
         [ps EXCEPT !.state = c.state, !.doc_type = @ \o Trim(c.line)]
    [] c.state = "Doc" ->
         [ps EXCEPT !.state = c.state, !.doc = @ \o Trim(c.line) \o <<NL>>]
    [] c.state = "Example" ->
         [ps EXCEPT !.state = c.state, !.example = @ \o Trim(c.line) \o <<NL>>]

\* One iteration of the loop over the lines.
ProcessLine(ps, l) == PushLine(ps, MarkerChecks(ps.state, l))

\* let f = |s: String| if s.is_empty() { None } else { Some(s.into()) };
NonEmpty(s) == IF s = <<>> THEN None ELSE Some(s)

\* DocComment { doc: doc.trim().into(), doc_type: f(doc_type), example: f(example) }
MakeDocComment(ps) ==
  [doc |-> Trim(ps.doc), doc_type |-> NonEmpty(ps.doc_type),
   example |-> NonEmpty(ps.example)]

InitialParse == [state |-> "Doc", doc |-> <<>>, doc_type |-> <<>>, example |-> <<>>]

RECURSIVE FoldLines(_, _)
FoldLines(ps, ls) ==
  IF ls = <<>> THEN ps ELSE FoldLines(ProcessLine(ps, Head(ls)), Tail(ls))

parse_doc_comment(text) ==
  MakeDocComment(FoldLines(InitialParse, Lines(Trim(text))))

------------------------------------------------------------------------------
\* The arena of rnix: nodes addressed by index (from 1); child and sibling are
\* the index of the first child and of the next sibling, 0 for None. An Ident
\* node carries its name and its leading trivia (Data::Ident(meta, name)).

NoNode == 0

\* Trivia of meta.leading: a comment (multi-line or not) or something else.
Trivia(isComment, multiline, content) ==
  [comment |-> isComment, multiline |-> multiline, content |-> content]

\* retrieve_doc_comment: the content of the first multi-line comment
RECURSIVE retrieve_doc_comment(_)
retrieve_doc_comment(leading) ==
  IF leading = <<>> THEN None
  ELSE IF Head(leading).comment /\ Head(leading).multiline
       THEN Some(Head(leading).content)
       ELSE retrieve_doc_comment(Tail(leading))

\* retrieve_doc_item: a DocItem for an identifier with a doc comment
retrieve_doc_item(node) ==
  IF node.kind = "Ident"
  THEN LET c == retrieve_doc_comment(node.leading)
       IN IF c.some
          THEN Some([name |-> node.name,
                     comment |-> parse_doc_comment(c.val),
                     args |-> <<>>])
          ELSE None
  ELSE None

\* Mutant: the recursion into a curried body is missing.
collect_lambda_args_no_recursion(ar, lambda_node, args) ==
  IF ar[lambda_node].child = NoNode THEN args
  ELSE IF ar[ar[lambda_node].child].kind = "Ident"
       THEN Append(args, ar[ar[lambda_node].child].name)
       ELSE args

\* collect_lambda_args: the args vector after the call
RECURSIVE collect_lambda_args(_, _, _)
collect_lambda_args(ar, lambda_node, args) ==
  IF ar[lambda_node].child = NoNode THEN args
  ELSE LET ident_node == ar[ar[lambda_node].child]
           pushed == IF ident_node.kind = "Ident"
                     THEN Append(args, ident_node.name)
                     ELSE args
       IN IF ident_node.sibling = NoNode THEN pushed
          ELSE LET token_node == ar[ident_node.sibling]
               IN IF token_node.sibling = NoNode THEN pushed
                  ELSE IF ar[token_node.sibling].kind = "Lambda"
                       THEN collect_lambda_args(ar, token_node.sibling, pushed)
                       ELSE pushed

\* collect_entry_information: the DocItem of a SetEntry node, if any
collect_entry_information(ar, entry_node) ==
  IF ar[entry_node].child = NoNode THEN None
  ELSE LET attr_node == ar[ar[entry_node].child]
       IN IF attr_node.child = NoNode THEN None
          ELSE LET doc_item == retrieve_doc_item(ar[attr_node.child])
               IN IF ~doc_item.some THEN None
                  ELSE IF attr_node.sibling = NoNode THEN None
                  ELSE LET assign_node == ar[attr_node.sibling]
                       IN IF assign_node.sibling = NoNode THEN None
                          ELSE IF ar[assign_node.sibling].kind = "Lambda"
                               THEN Some([doc_item.val EXCEPT !.args =
                                            collect_lambda_args(
                                              ar, assign_node.sibling, <<>>)])
                               ELSE doc_item

\* str::split("\n\n"): the pieces between the non-overlapping separators
RECURSIVE SplitOn(_, _, _, _)
SplitOn(s, sep, cur, acc) ==
  IF s = <<>> THEN Append(acc, cur)
  ELSE IF StartsWith(s, sep)
       THEN SplitOn(SliceFrom(s, Len(sep)), sep, <<>>, Append(acc, cur))
       ELSE SplitOn(Tail(s), sep, Append(cur, Head(s)), acc)

Split(s, sep) == SplitOn(s, sep, <<>>, <<>>)

\* opts.category and opts.description
Category == "strings"
Description == "String functions"

\* The ManualEntry main builds from a DocItem.
ManualEntryOf(d) ==
  [category |-> Category,
   name |-> d.name,
   description |-> Split(d.comment.doc, <<NL, NL>>),
   fn_type |-> d.comment.doc_type,
   example |-> d.comment.example,
   args |-> d.args]

\* Mutant: an entry whose name was collected before is dropped.
CollectDedup(es, e) ==
  IF \E i \in 1..Len(es) : es[i].name = e.name THEN es ELSE Append(es, e)

\* .collect() into the Vec<ManualEntry>
Collect(es, e) == Append(es, e)

\* The first SetEntry node at or after index i (.filter), 0 if there is none.
NextSetEntry(ar, i) ==
  LET rest == {j \in i..Len(ar) : ar[j].kind = "SetEntry"}
  IN IF rest = {} THEN NoNode ELSE CHOOSE j \in rest : \A k \in rest : j <= k

------------------------------------------------------------------------------
\* Events given to the XML writer

StartElement(name, attr) == [ev |-> "start", name |-> name, text |-> attr]
EndElement == [ev |-> "end", name |-> "", text |-> <<>>]
Characters(text) == [ev |-> "characters", name |-> "", text |-> text]
CData(text) == [ev |-> "cdata", name |-> "", text |-> text]

\* format!("lib.{}.{}", self.category, self.name)
IdentOf(e) == <<"lib.", e.category, ".", e.name>>

TitleBlock(e) ==
  << StartElement("title", <<>>), StartElement("function", <<>>),
     Characters(IdentOf(e)), EndElement, EndElement >>

SubtitleBlock(e) ==
  IF e.fn_type.some
  THEN << StartElement("subtitle", <<>>), StartElement("literal", <<>>),
          Characters(e.fn_type.val), EndElement, EndElement >>
  ELSE <<>>

IncludeBlock(e) == << StartElement("xi:include", IdentOf(e)), EndElement >>

RECURSIVE Paragraphs(_)
Paragraphs(ps) ==
  IF ps = <<>> THEN <<>>
  ELSE << StartElement("para", <<>>), Characters(Head(ps)), EndElement >>
         \o Paragraphs(Tail(ps))

RECURSIVE VarListEntries(_)
VarListEntries(args) ==
  IF args = <<>> THEN <<>>
  ELSE << StartElement("varlistentry", <<>>),
          StartElement("term", <<>>), StartElement("varname", <<>>),
          Characters(Head(args)), EndElement, EndElement,
          StartElement("listitem", <<>>), StartElement("para", <<>>),
          Characters("Function argument"), EndElement, EndElement,
          EndElement >>
         \o VarListEntries(Tail(args))

ArgsBlock(e) ==
  IF e.args # <<>>
  THEN << StartElement("variablelist", <<>>) >> \o VarListEntries(e.args)
         \o << EndElement >>
  ELSE <<>>

\* Mutant: the example element is left open.
ExampleBlockUnclosed(e) ==
  IF e.example.some
  THEN << StartElement("example", <<>>),
          StartElement("title", <<>>),
          StartElement("function", <<>>), Characters(IdentOf(e)), EndElement,
          Characters(" usage example"), EndElement,
          StartElement("programlisting", <<>>), CData(e.example.val),
          EndElement >>
  ELSE <<>>

ExampleBlock(e) ==
  IF e.example.some
  THEN << StartElement("example", <<>>),
          StartElement("title", <<>>),
          StartElement("function", <<>>), Characters(IdentOf(e)), EndElement,
          Characters(" usage example"), EndElement,
          StartElement("programlisting", <<>>), CData(e.example.val),
          EndElement,
          EndElement >>
  ELSE <<>>

\* ManualEntry::write_section_xml: the events it writes, in order
write_section_xml(e) ==
  << StartElement("section", <<"function-library-">> \o IdentOf(e)) >>
    \o TitleBlock(e) \o SubtitleBlock(e) \o IncludeBlock(e)
    \o Paragraphs(e.description) \o ArgsBlock(e) \o ExampleBlock(e)
    \o << EndElement >>

\* main: the outer section's start and its title
HeaderEvents ==
  << StartElement("section", <<"sec-functions-library-", Category>>),
     StartElement("title", <<>>), Characters(Description), EndElement >>

------------------------------------------------------------------------------
\* The tree rnix::parse builds for a file given as its set entries. An entry
\* is [name, ident, leading, value]: the key is an identifier (ident) or a
\* string, with its leading trivia; the value is [kind |-> "other"],
\* [kind |-> "lambda", params] or [kind |-> "set", entries]. A lambda
\* parameter is [ident, name]: an identifier or a pattern.

Node(kind, name, leading) ==
  [kind |-> kind, name |-> name, leading |-> leading,
   child |-> NoNode, sibling |-> NoNode]

\* The nodes ids[1], ids[2], ... chained as siblings, under a new parent.
AddParent(ar, kind, ids) ==
  LET linked == [i \in DOMAIN ar |->
                   IF \E k \in 1..(Len(ids) - 1) : ids[k] = i
                   THEN [ar[i] EXCEPT !.sibling =
                           ids[(CHOOSE k \in 1..(Len(ids) - 1) : ids[k] = i) + 1]]
                   ELSE ar[i]]
      parent == [Node(kind, "", <<>>) EXCEPT
                   !.child = IF ids = <<>> THEN NoNode ELSE ids[1]]
  IN [arena |-> Append(linked, parent), id |-> Len(ar) + 1]

AddLeaf(ar, node) == [arena |-> Append(ar, node), id |-> Len(ar) + 1]

RECURSIVE BuildLambda(_, _)
RECURSIVE BuildValue(_, _)
RECURSIVE BuildEntry(_, _)
RECURSIVE BuildEntries(_, _, _)
RECURSIVE BuildSet(_, _)

\* param: body, with the body a lambda for the remaining parameters
BuildLambda(ar, params) ==
  LET p == Head(params)
      param == AddLeaf(ar, IF p.ident THEN Node("Ident", p.name, <<>>)
                           ELSE Node("Pattern", "", <<>>))
      colon == AddLeaf(param.arena, Node("Token", "", <<>>))
      body == IF Len(params) > 1 THEN BuildLambda(colon.arena, Tail(params))
              ELSE AddLeaf(colon.arena, Node("Operation", "", <<>>))
  IN AddParent(body.arena, "Lambda", <<param.id, colon.id, body.id>>)

BuildValue(ar, v) ==
  CASE v.kind = "other" -> AddLeaf(ar, Node("Value", "", <<>>))
    [] v.kind = "lambda" -> BuildLambda(ar, v.params)
    [] v.kind = "set" -> BuildSet(ar, v.entries)

\* key = value;
BuildEntry(ar, e) ==
  LET key == AddLeaf(ar, IF e.ident THEN Node("Ident", e.name, e.leading)
                         ELSE Node("Value", "", e.leading))
      attr == AddParent(key.arena, "Attribute", <<key.id>>)
      assign == AddLeaf(attr.arena, Node("Token", "", <<>>))
      value == BuildValue(assign.arena, e.value)
      semi == AddLeaf(value.arena, Node("Token", "", <<>>))
  IN AddParent(semi.arena, "SetEntry", <<attr.id, assign.id, value.id, semi.id>>)

BuildEntries(ar, es, ids) ==
  IF es = <<>> THEN [arena |-> ar, ids |-> ids]
  ELSE LET b == BuildEntry(ar, Head(es))
       IN BuildEntries(b.arena, Tail(es), Append(ids, b.id))

\* { entries }
BuildSet(ar, es) ==
  LET open == AddLeaf(ar, Node("Token", "", <<>>))
      body == BuildEntries(open.arena, es, <<>>)
      close == AddLeaf(body.arena, Node("Token", "", <<>>))
  IN AddParent(close.arena, "Set", <<open.id>> \o body.ids \o <<close.id>>)

\* rnix::parse(&src).arena
ParseFile(es) == BuildSet(<<>>, es).arena

------------------------------------------------------------------------------
\* Comment texts given to parse_doc_comment

MaxLines == 2

X == <<"x">>

\* A line: optional content (blank or ' x'), alone or after one marker or after
\* two markers, which may have a blank between them.
Markers == {DocMarker, TypeMarker, ExampleMarker}
Contents == {<<>>, <<SP>> \o X}
CommentLines ==
  Contents
    \cup {a \o c : a \in Markers, c \in Contents}
    \cup {a \o s \o b \o c : a \in Markers, s \in {<<>>, <<SP>>}, b \in Markers,
                             c \in Contents}

RECURSIVE JoinLines(_)
JoinLines(ls) ==
  IF ls = <<>> THEN <<>>
  ELSE IF Len(ls) = 1 THEN ls[1]
  ELSE ls[1] \o <<NL>> \o JoinLines(Tail(ls))

ScenarioDocLine ==
  <<"C", "o", "n", "c", "a", "t", "e", "n", "a", "t", "e", "s", " ", "t", "w",
    "o", " ", "s", "t", "r", "i", "n", "g", "s", ".">>
ScenarioTypeLine ==
  <<"s", "t", "r", "i", "n", "g", " ", "-", ">", " ", "s", "t", "r", "i", "n",
    "g", " ", "-", ">", " ", "s", "t", "r", "i", "n", "g">>
ScenarioExample1 ==
  <<"c", "o", "n", "c", "a", "t", " ", "\"", "a", "\"", " ", "\"", "b", "\"">>
ScenarioExample2 ==
  <<"=", ">", " ", "\"", "a", "b", "\"">>

\* The comment of the scenario: @doc / description / type / example.
ScenarioText ==
  JoinLines(<< <<"@", "d", "o", "c">>, ScenarioDocLine, <<>>,
               <<"T", "y", "p", "e", ":">>, ScenarioTypeLine, <<>>,
               <<"E", "x", "a", "m", "p", "l", "e", ":">>,
               ScenarioExample1, ScenarioExample2 >>)

CommentTexts ==
  {JoinLines(ls) : ls \in UNION {[1..n -> CommentLines] : n \in 0..MaxLines}}
    \cup {ScenarioText}

------------------------------------------------------------------------------
\* Files given to main

MaxEntries == 2
MaxArgs == 3

\* Doc comments: a description only; two paragraphs, a type and an example.
CommentA == X
CommentB ==
  JoinLines(<< X, <<>>, X, TypeMarker \o <<SP>> \o X,
               ExampleMarker \o <<SP>> \o X >>)

Whitespace == Trivia(FALSE, FALSE, <<NL>>)
LineComment(c) == Trivia(TRUE, FALSE, c)
BlockComment(c) == Trivia(TRUE, TRUE, c)

Documented == << Whitespace, BlockComment(CommentA) >>
Leadings ==
  { <<>>, << LineComment(X) >>, Documented,
    << LineComment(X), BlockComment(CommentB), BlockComment(CommentA) >> }

Other == [kind |-> "other"]
Lambda(params) == [kind |-> "lambda", params |-> params]
SetOf(es) == [kind |-> "set", entries |-> es]
Entry(name, ident, leading, value) ==
  [name |-> name, ident |-> ident, leading |-> leading, value |-> value]

IdentParam(name) == [ident |-> TRUE, name |-> name]
PatternParam == [ident |-> FALSE, name |-> ""]
Params == {IdentParam("a"), IdentParam("b"), PatternParam}
Chains == UNION {[1..n -> Params] : n \in 1..MaxArgs}

\* Values of the entries of a file: a plain value, a curried function, a
\* nested set with a documented entry, a nested set with an undocumented one.
Values ==
  { Other,
    Lambda(<< IdentParam("a"), IdentParam("b") >>),
    SetOf(<< Entry("g", TRUE, Documented, Other) >>),
    SetOf(<< Entry("g", TRUE, <<>>, Lambda(<< IdentParam("a") >>)) >>) }

\* Top-level entries: a plain value under either name and any leading trivia;
\* any value under a documented and under an undocumented identifier; any
\* value under a string key below a doc comment.
Entries ==
  {Entry(n, TRUE, l, Other) : n \in {"f", "g"}, l \in Leadings}
    \cup {Entry("f", TRUE, l, v) : l \in {<<>>, Documented}, v \in Values}
    \cup {Entry("f", FALSE, Documented, v) : v \in Values}

Files == UNION {[1..n -> Entries] : n \in 0..MaxEntries}

\* Files of one documented entry whose value is a function.
FunctionFiles == {<< Entry("foo", TRUE, Documented, Lambda(c)) >> : c \in Chains}

\* ManualEntry values given to the rendering loop directly.
ManualEntries ==
  [category : {Category},
   name : {"f"},
   description : {<< <<>> >>, << X, X >>},
   fn_type : {None, Some(X)},
   example : {None, Some(X \o <<NL>>)},
   args : {<<>>, <<"a", "b">>}]

EntryLists == UNION {[1..n -> ManualEntries] : n \in 0..MaxEntries}

------------------------------------------------------------------------------
\* parse_doc_comment, one loop iteration per step

\* The state of main before the file is read.
MainIdle ==
  /\ input = <<>>
  /\ arena = <<>>
  /\ idx = 1
  /\ entries = <<>>
  /\ written = 0
  /\ out = <<>>

\* The state of a parse_doc_comment call before its loop.
ParseIdle ==
  /\ lines = <<>>
  /\ state = "Doc"
  /\ doc = <<>>
  /\ doc_type = <<>>
  /\ example = <<>>
  /\ comment = None

ParseInit ==
  /\ pc = "start"
  /\ raw \in CommentTexts
  /\ ParseIdle
  /\ MainIdle

\* for line in raw.trim().lines()
ParseBegin ==
  /\ pc = "start"
  /\ lines' = Lines(Trim(raw))
  /\ pc' = "lines"
  /\ UNCHANGED <<raw, state, doc, doc_type, example, comment>>
  /\ UNCHANGED mainVars

ParseLine ==
  /\ pc = "lines"
  /\ lines # <<>>
  /\ LET ps == ProcessLine([state |-> state, doc |-> doc,
                            doc_type |-> doc_type, example |-> example],
                           Head(lines))
     IN /\ state' = ps.state
        /\ doc' = ps.doc
        /\ doc_type' = ps.doc_type
        /\ example' = ps.example
  /\ lines' = Tail(lines)
  /\ UNCHANGED <<pc, raw, comment>>
  /\ UNCHANGED mainVars

ParseEnd ==
  /\ pc = "lines"
  /\ lines = <<>>
  /\ comment' = Some(MakeDocComment([state |-> state, doc |-> doc,
                                     doc_type |-> doc_type, example |-> example]))
  /\ pc' = "done"
  /\ UNCHANGED <<raw, lines, state, doc, doc_type, example>>
  /\ UNCHANGED mainVars

ParseNext == ParseBegin \/ ParseLine \/ ParseEnd

ParseSpec == ParseInit /\ [][ParseNext]_vars

------------------------------------------------------------------------------
\* main

\* main after rnix::parse, on the file `input`.
MainStart ==
  /\ pc = "collect"
  /\ arena = ParseFile(input)
  /\ idx = 1
  /\ entries = <<>>
  /\ written = 0
  /\ out = <<>>
  /\ raw = <<>>
  /\ ParseIdle

MainInit == input \in Files /\ MainStart

\* One step of the iterator chain: the next SetEntry node (.filter) goes
\* through collect_entry_information (.filter_map) and, if it yields a DocItem,
\* becomes a ManualEntry (.map) at the end of the collected Vec.
MainCollect ==
  /\ pc = "collect"
  /\ NextSetEntry(arena, idx) # NoNode
  /\ LET node == NextSetEntry(arena, idx)
         d == collect_entry_information(arena, node)
     IN /\ entries' = IF d.some THEN Collect(entries, ManualEntryOf(d.val))
                      ELSE entries
        /\ idx' = node + 1
  /\ UNCHANGED <<pc, input, arena, written, out>>
  /\ UNCHANGED parseVars

\* The iterator is exhausted.
MainCollected ==
  /\ pc = "collect"
  /\ NextSetEntry(arena, idx) = NoNode
  /\ idx' = Len(arena) + 1
  /\ pc' = "header"
  /\ UNCHANGED <<input, arena, entries, written, out>>
  /\ UNCHANGED parseVars

\* <section ...><title>description</title>
MainWriteHeader ==
  /\ pc = "header"
  /\ out' = out \o HeaderEvents
  /\ pc' = "write"
  /\ UNCHANGED <<input, arena, idx, entries, written>>
  /\ UNCHANGED parseVars

\* for entry in entries { entry.write_section_xml(&mut writer) }
MainWriteEntry ==
  /\ pc = "write"
  /\ written < Len(entries)
  /\ out' = out \o write_section_xml(entries[written + 1])
  /\ written' = written + 1
  /\ UNCHANGED <<pc, input, arena, idx, entries>>
  /\ UNCHANGED parseVars

\* </section>
MainWriteFooter ==
  /\ pc = "write"
  /\ written = Len(entries)
  /\ out' = Append(out, EndElement)
  /\ pc' = "done"
  /\ UNCHANGED <<input, arena, idx, entries, written>>
  /\ UNCHANGED parseVars

MainNext ==
  \/ MainCollect
  \/ MainCollected
  \/ MainWriteHeader
  \/ MainWriteEntry
  \/ MainWriteFooter

Spec == MainInit /\ [][MainNext]_vars

\* main on the files of one documented function.
FunctionInit == input \in FunctionFiles /\ MainStart

FunctionSpec == FunctionInit /\ [][MainNext]_vars

\* The rendering loop of main on any list of ManualEntry values.
RenderInit ==
  /\ pc = "header"
  /\ entries \in EntryLists
  /\ input = <<>>
  /\ arena = <<>>
  /\ idx = 1
  /\ written = 0
  /\ out = <<>>
  /\ raw = <<>>
  /\ ParseIdle

RenderNext == MainWriteHeader \/ MainWriteEntry \/ MainWriteFooter

RenderSpec == RenderInit /\ [][RenderNext]_vars

------------------------------------------------------------------------------
\* Claims about parse_doc_comment (ParseSpec)

Parsed == comment.val

\* The DocComment the scenario is said to parse to.
ScenarioExpected ==
  [doc |-> ScenarioDocLine,
   doc_type |-> Some(ScenarioTypeLine),
   example |-> Some(ScenarioExample1 \o <<NL>> \o ScenarioExample2)]

\* C1: the scenario comment (@doc / description / Type: / Example:) parses to
\* doc = the description line, doc_type = the type line, and example = the two
\* example lines joined by one line break, with no line break around them.
C1_Scenario ==
  (pc = "done" /\ raw = ScenarioText) => Parsed = ScenarioExpected

\* C2: example is absent unless the Example buffer is non-empty after trimming
\* and a present example is that buffer trimmed; doc_type is absent unless the
\* Type section contributed non-empty text; doc is the trimmed Doc buffer.
C2_FieldsTrimmed ==
  pc = "done" =>
    /\ Parsed.example = NonEmpty(Trim(example))
    /\ Parsed.doc_type = NonEmpty(doc_type)
    /\ Parsed.doc = Trim(doc)

\* The canonical reconstruction of a DocComment: doc, then Type: and the type,
\* then Example: and the example, each marker opening a line. CanonInline puts
\* the field on the marker's line, CanonSplit on the line after it.
Canon(d, sep) ==
  d.doc
    \o (IF d.doc_type.some THEN <<NL>> \o TypeMarker \o sep \o d.doc_type.val
        ELSE <<>>)
    \o (IF d.example.some THEN <<NL>> \o ExampleMarker \o sep \o d.example.val
        ELSE <<>>)
CanonInline(d) == Canon(d, <<>>)
CanonSplit(d) == Canon(d, <<NL>>)

\* C6: parsing the canonical reconstruction of a DocComment that
\* parse_doc_comment produced gives the same DocComment (under either layout of
\* the reconstruction).
C6_Idempotent ==
  pc = "done" =>
    \/ parse_doc_comment(CanonInline(Parsed)) = Parsed
    \/ parse_doc_comment(CanonSplit(Parsed)) = Parsed

\* A step of the loop over the lines.
LineStep == pc = "lines" /\ lines # <<>> /\ lines' = Tail(lines)

\* C9: a line goes through the checks '@doc ' then 'Type:' then 'Example:',
\* each on the line as the earlier ones left it; the state after the line is
\* that of the last check that matched (unchanged if none did), and the rest of
\* the line is appended to the buffer of that new state and to no other. A
\* line '@doc Type: x' appends 'x' to the type buffer and nothing to doc.
C9_MarkerOrder ==
  [][LineStep =>
      LET l0 == Trim(Head(lines))
          m1 == StartsWith(l0, DocMarker)
          l1 == CheckDoc([state |-> state, line |-> l0]).line
          m2 == StartsWith(l1, TypeMarker)
          l2 == CheckType([state |-> state, line |-> l1]).line
          m3 == StartsWith(l2, ExampleMarker)
          l3 == CheckExample([state |-> state, line |-> l2]).line
          new == IF m3 THEN "Example"
                 ELSE IF m2 THEN "Type"
                 ELSE IF m1 THEN "Doc"
                 ELSE state
          rest == Trim(l3)
      IN /\ state' = new
         /\ doc' = IF new = "Doc" THEN doc \o rest \o <<NL>> ELSE doc
         /\ doc_type' = IF new = "Type" THEN doc_type \o rest ELSE doc_type
         /\ example' = IF new = "Example" THEN example \o rest \o <<NL>>
                       ELSE example
         /\ (l0 = DocMarker \o TypeMarker \o <<SP>> \o X
               => doc_type' = doc_type \o X /\ doc' = doc)
    ]_vars

\* The line '@doc Type: x' has been parsed: 'x' is the type, doc is empty.
C9_Witness ==
  /\ pc = "done"
  /\ raw = DocMarker \o TypeMarker \o <<SP>> \o X
  /\ Parsed.doc_type = Some(X)
  /\ Parsed.doc = <<>>

\* One leading occurrence of the marker removed, if the line starts with it.
StripOnce(l, m) == IF StartsWith(l, m) THEN SliceFrom(l, Len(m)) ELSE l

\* C10: a line that starts with a marker loses exactly that one occurrence of
\* it: what is buffered is the line with each matching marker removed once,
\* also when the same marker follows again ('Example:Example: x' buffers
\* 'Example: x', '@doc @doc x' buffers '@doc x', 'Type:Type: x' buffers
\* 'Type: x').
C10_StripOnce ==
  [][LineStep =>
      LET l0 == Trim(Head(lines))
          rest == Trim(StripOnce(StripOnce(StripOnce(l0, DocMarker),
                                           TypeMarker), ExampleMarker))
      IN CASE state' = "Doc" -> doc' = doc \o rest \o <<NL>>
           [] state' = "Type" -> doc_type' = doc_type \o rest
           [] state' = "Example" -> example' = example \o rest \o <<NL>>
    ]_vars

------------------------------------------------------------------------------
\* Claims about main (Spec, FunctionSpec, RenderSpec)

\* The top-level entries of the file that have an identifier key with a
\* leading multi-line comment.
DocumentedTopLevel ==
  {i \in DOMAIN input :
     input[i].ident /\ retrieve_doc_comment(input[i].leading).some}

\* C3: the number of ManualEntry values main builds is the number of top-level
\* set entries that have the shape entry -> attribute -> identifier and a
\* leading multi-line comment on the identifier; no other node contributes.
C3_OnlyDocumentedTopLevel ==
  pc # "collect" => Len(entries) = Cardinality(DocumentedTopLevel)

\* The parameters of the function the file of FunctionSpec documents.
FunctionParams == input[1].value.params

ParamNames(params) == [i \in DOMAIN params |-> params[i].name]

\* The parameters before the first destructured one.
RECURSIVE IdentPrefix(_)
IdentPrefix(params) ==
  IF params = <<>> \/ ~Head(params).ident THEN <<>>
  ELSE <<Head(params)>> \o IdentPrefix(Tail(params))

\* C4: on a chain of n >= 1 nested single-identifier lambdas
\* collect_lambda_args leaves exactly the n parameter names, outermost first;
\* the entry 'foo = a: b: a + b;' has args = <<"a", "b">>.
C4_CurriedArgs ==
  (pc # "collect" /\ \A i \in DOMAIN FunctionParams : FunctionParams[i].ident)
    => /\ Len(entries) = 1
       /\ entries[1].args = ParamNames(FunctionParams)

\* The entry foo = a: b: a + b; has been collected with args a, b.
C4_Witness ==
  /\ pc = "done"
  /\ FunctionParams = << IdentParam("a"), IdentParam("b") >>
  /\ Len(entries) = 1
  /\ entries[1].name = "foo"
  /\ entries[1].args = <<"a", "b">>

\* C5: collect_lambda_args stops at a destructured parameter: the args are the
\* names of the identifier parameters before it, whatever follows it.
C5_StopsAtPattern ==
  pc # "collect" =>
    /\ Len(entries) = 1
    /\ entries[1].args = ParamNames(IdentPrefix(FunctionParams))

\* The ManualEntry values of the SetEntry nodes from..to of the arena that
\* yield a DocItem, in the order of the arena.
EntriesOfNodes(ar, from, to) ==
  LET kept == {i \in from..to : /\ ar[i].kind = "SetEntry"
                                /\ collect_entry_information(ar, i).some}
      \* the k-th kept node
      nth(k) == CHOOSE i \in kept : Cardinality({j \in kept : j < i}) = k - 1
  IN [k \in 1..Cardinality(kept) |->
        ManualEntryOf(collect_entry_information(ar, nth(k)).val)]

IsEntrySection(e) ==
  /\ e.ev = "start"
  /\ e.name = "section"
  /\ e.text # <<"sec-functions-library-", Category>>

\* The xml:id of the sections written for entries, in the order written.
SectionIds(evs) ==
  LET opened == SelectSeq(evs, IsEntrySection)
  IN [k \in DOMAIN opened |-> opened[k].text]

\* C7: the ManualEntry values are those of the surviving SetEntry nodes in the
\* order the nodes are enumerated, one each, none dropped, merged or moved
\* (also when two have the same name), and their sections are written in that
\* order.
C7_SourceOrder ==
  /\ entries = EntriesOfNodes(arena, 1, idx - 1)
  /\ SectionIds(out) =
       [i \in 1..written |-> <<"function-library-">> \o IdentOf(entries[i])]
  /\ pc = "done" => written = Len(entries)

\* Two documented entries of the same name, and a different one between
\* them in the arena, have all been written.
C7_Witness ==
  /\ pc = "done"
  /\ Len(entries) = 3
  /\ entries[1].name = "f" /\ entries[2].name = "g" /\ entries[3].name = "f"
  /\ Len(SectionIds(out)) = 3

Starts(evs) == Cardinality({k \in DOMAIN evs : evs[k].ev = "start"})
Ends(evs) == Cardinality({k \in DOMAIN evs : evs[k].ev = "end"})
Depth(evs) == Starts(evs) - Ends(evs)

\* C8: the start_element / end_element calls of main and write_section_xml are
\* balanced: no prefix of the calls has more ends than starts, a
\* write_section_xml call leaves the nesting depth as it found it, and the
\* depth is zero after the last end_element of main.
C8_Balanced ==
  /\ [](/\ \A k \in 1..Len(out) : Depth(SubSeq(out, 1, k)) >= 0
        /\ pc = "done" => Depth(out) = 0)
  /\ [][written' = written + 1 => Depth(out') = Depth(out)]_vars

\* Entries with and without type, example and args have been written and the
\* outer section closed.
C8_Witness ==
  /\ pc = "done"
  /\ Len(entries) >= 2
  /\ written = Len(entries)
  /\ \E i \in DOMAIN entries :
       entries[i].fn_type.some /\ entries[i].example.some
         /\ entries[i].args # <<>>
  /\ \E i \in DOMAIN entries :
       ~entries[i].fn_type.some /\ ~entries[i].example.some
         /\ entries[i].args = <<>>

====
